---- MODULE Spec2Model ----
(***************************************************************************)
(* A model of spineplot's statistics code:                                 *)
(*   - ConfusionMatrix.__init__ / add_sample / draw (confusion.py)         *)
(*   - calculate_efficiency(_by_cut), calculate_purity(_by_cut) and        *)
(*     plot_eff_by_var (pur_eff_analyzer.py)                               *)
(* Floating-point values are modelled as records (finite numbers, NaN,     *)
(* infinities) and quotients as exact fractions <<numerator, denominator>>.*)
(***************************************************************************)
EXTENDS Integers, Sequences, FiniteSets, TLC

VARIABLES
    categories,        \* ConfusionMatrix._categories: the keys, in dict order
    confusion_matrix,  \* ConfusionMatrix._confusion_matrix, one per instance
    fed,               \* per instance: the batches add_sample was called with
    total,             \* every event handed to a partition instance, in order
    raised,            \* per instance: some add_sample call raised
    build,             \* how the installed sklearn treats a huge float label
    view,              \* what the last draw call computed
    eff_in,            \* plot_eff_by_var: config, signal rows, pandas build
    eff_pc,            \* plot_eff_by_var: where the call is
    sig_df,            \* plot_eff_by_var: the filtered signal dataframe
    var_q_ana,         \* plot_eff_by_var: analysis bin of each kept row
    var_q_eff,         \* plot_eff_by_var: efficiency bin of each kept row
    groups,            \* plot_eff_by_var: what groupby('var_q_eff') yields
    eff_i,             \* plot_eff_by_var: the loop index i
    vals,              \* plot_eff_by_var: the plotted ratio of each group
    hpass,             \* plot_eff_by_var: bin contents of TH1D hpass
    htotal,            \* plot_eff_by_var: bin contents of TH1D htotal
    all_samples,       \* main: the samples the running task was given
    ana_pc,            \* main: where the efficiency / purity task is
    cut_i,             \* the by-cut loops: how many cuts are done
    out,               \* the lines printed, each with the function printing it
    result             \* what calculate_efficiency / calculate_purity returned

cmvars == <<categories, confusion_matrix, fed, total, raised, build, view>>

effvars == <<eff_in, eff_pc, sig_df, var_q_ana, var_q_eff, groups, eff_i,
             vals, hpass, htotal>>

anavars == <<all_samples, ana_pc, cut_i, out, result>>

vars == <<cmvars, effvars, anavars>>

(***************************************************************************)
(* Bounds of the model.                                                    *)
(***************************************************************************)
MaxEvents == 3
MaxDrawEvents == 3
MaxSigRows == 3
MaxRows == 2

(***************************************************************************)
(* Floating-point labels.                                                  *)
(***************************************************************************)
NullKey == -1

Num(v) == [kind |-> "num", val |-> v]
NaN == [kind |-> "nan", val |-> 0]
PosInf == [kind |-> "inf", val |-> 1]
NegInf == [kind |-> "inf", val |-> 0 - 1]
\* the largest finite double, with its sign: what numpy puts for an infinity
Huge(sign) == [kind |-> "huge", val |-> sign]

Ev(c, t, p) == [category |-> c, true_label |-> t, predicted_label |-> p]

\* The dictionaries a caller passes as `categories`.
Registries == { <<0, 1>>, <<0, NullKey, 1>> }

\* Events of a sample: registered and unregistered group categories, true
\* labels and predicted labels, and missing / non-finite predictions.
EventPool ==
    { Ev(0, 0, Num(0)), Ev(0, 0, Num(1)), Ev(1, 1, Num(1)),
      Ev(0, 0, NaN), Ev(0, 0, PosInf), Ev(1, 1, NegInf),
      Ev(0, 0, Num(7)), Ev(0, 7, Num(0)), Ev(9, 0, Num(0)) }

Batches(n) == UNION { [1..k -> EventPool] : k \in 1..n }

Instances == {"whole", "a", "b"}
Parts == {"a", "b"}

(***************************************************************************)
(* ConfusionMatrix.__init__                                                *)
(***************************************************************************)
HasKey(labels, key) == \E i \in 1..Len(labels) : labels[i] = key

\* self._categories[-1] = 'Null': a new key goes last, an existing key
\* keeps its place in the dict.
EnsureNull(reg) == IF HasKey(reg, NullKey) THEN reg ELSE Append(reg, NullKey)

Zeros(n) == [i \in 1..n |-> [j \in 1..n |-> 0]]

(***************************************************************************)
(* ConfusionMatrix.add_sample                                              *)
(***************************************************************************)
RECURSIVE SortedSeq(_)
SortedSeq(S) ==
    IF S = {} THEN <<>>
    ELSE LET m == CHOOSE x \in S : \A y \in S : x <= y
         IN <<m>> \o SortedSeq(S \ {m})

\* Sample.get_data: the sample's events grouped by category, each group
\* holding the requested variables as parallel arrays.
get_data(evs) ==
    LET cats == SortedSeq({evs[k].category : k \in 1..Len(evs)})
    IN [g \in 1..Len(cats) |->
          LET sel == SelectSeq(evs, LAMBDA e : e.category = cats[g])
          IN [category |-> cats[g],
              true_labels |-> [k \in 1..Len(sel) |-> sel[k].true_label],
              predicted_labels |-> [k \in 1..Len(sel) |-> sel[k].predicted_label]]]

\* np.nan_to_num(x, nan=-1): NaN becomes -1; posinf and neginf keep their
\* defaults, the largest and the most negative finite double.
nan_to_num(x) ==
    CASE x.kind = "nan" -> Num(NullKey)
      [] x.kind = "inf" -> Huge(x.val)
      [] OTHER -> x

\* sklearn.metrics.confusion_matrix(y_true, y_pred, labels=labels):
\*  - a float target that is not integer-valued is "continuous" and the
\*    call raises ValueError (a mix of multiclass and continuous targets);
\*    a build without that check finds the value in no label and drops it;
\*  - a non-empty y_true holding none of the labels raises ValueError
\*    ("At least one label specified must be in y_true");
\*  - pairs whose true or predicted value is not in labels are eliminated;
\*  - cell [i][j] counts the pairs (labels[i], labels[j]).
sk_confusion_matrix(y_true, y_pred, labels) ==
    LET n == Len(labels)
        idx == 1..Len(y_true)
    IN IF build = "raise" /\ \E k \in idx : y_pred[k].kind = "huge"
       THEN [raised |-> TRUE, m |-> Zeros(n)]
       ELSE IF idx # {} /\ \A k \in idx : ~HasKey(labels, y_true[k])
       THEN [raised |-> TRUE, m |-> Zeros(n)]
       ELSE [raised |-> FALSE,
             m |-> [i \in 1..n |-> [j \in 1..n |->
                     Cardinality({k \in idx : /\ y_true[k] = labels[i]
                                              /\ y_pred[k] = Num(labels[j])})]]]

MatAdd(a, b) == [i \in DOMAIN a |-> [j \in DOMAIN a[i] |-> a[i][j] + b[i][j]]]

\* the loop of add_sample over data.items(); an exception of
\* confusion_matrix leaves the loop with the groups added so far
RECURSIVE add_sample_loop(_, _)
add_sample_loop(cm, items) ==
    IF items = <<>> THEN [cm |-> cm, raised |-> FALSE]
    ELSE LET g == Head(items)
         IN IF ~HasKey(categories, g.category)
            THEN add_sample_loop(cm, Tail(items))
            ELSE LET r == sk_confusion_matrix(
                              g.true_labels,
                              [k \in 1..Len(g.predicted_labels) |->
                                   nan_to_num(g.predicted_labels[k])],
                              categories)
                 IN IF r.raised THEN [cm |-> cm, raised |-> TRUE]
                    ELSE add_sample_loop(MatAdd(cm, r.m), Tail(items))

add_sample(cm, sample) == add_sample_loop(cm, get_data(sample))

NoView == [drawn |-> FALSE]

\* plot_eff_by_var is not running
EffIdle ==
    /\ eff_in = [called |-> FALSE]
    /\ eff_pc = "idle"
    /\ sig_df = <<>>
    /\ var_q_ana = <<>>
    /\ var_q_eff = <<>>
    /\ groups = <<>>
    /\ eff_i = 0
    /\ vals = <<>>
    /\ hpass = <<>>
    /\ htotal = <<>>

\* main has not started its efficiency and purity tasks
AnaIdle ==
    /\ all_samples = [loaded |-> FALSE]
    /\ ana_pc = "main"
    /\ cut_i = 0
    /\ out = <<>>
    /\ result = [kind |-> "none"]

\* no ConfusionMatrix exists
CMIdle ==
    /\ categories = <<NullKey>>
    /\ build = "raise"
    /\ confusion_matrix = [i \in Instances |-> Zeros(1)]
    /\ fed = [i \in Instances |-> <<>>]
    /\ total = <<>>
    /\ raised = [i \in Instances |-> FALSE]
    /\ view = NoView

InitCM ==
    /\ \E reg \in Registries : categories = EnsureNull(reg)
    /\ build \in {"raise", "drop"}
    /\ confusion_matrix = [i \in Instances |-> Zeros(Len(categories))]
    /\ fed = [i \in Instances |-> <<>>]
    /\ total = <<>>
    /\ raised = [i \in Instances |-> FALSE]
    /\ view = NoView
    /\ EffIdle
    /\ AnaIdle

\* add_sample on one of the partition instances
AddPart(i, batch) ==
    /\ i \in Parts
    /\ fed["whole"] = <<>>
    /\ Len(total) + Len(batch) <= MaxEvents
    /\ LET r == add_sample(confusion_matrix[i], batch)
       IN /\ confusion_matrix' = [confusion_matrix EXCEPT ![i] = r.cm]
          /\ raised' = [raised EXCEPT ![i] = @ \/ r.raised]
    /\ fed' = [fed EXCEPT ![i] = Append(@, batch)]
    /\ total' = total \o batch
    /\ UNCHANGED <<categories, build, view, effvars, anavars>>

\* one add_sample call with every event the partitions received
AddWhole ==
    /\ fed["whole"] = <<>>
    /\ total # <<>>
    /\ LET r == add_sample(confusion_matrix["whole"], total)
       IN /\ confusion_matrix' = [confusion_matrix EXCEPT !["whole"] = r.cm]
          /\ raised' = [raised EXCEPT !["whole"] = @ \/ r.raised]
    /\ fed' = [fed EXCEPT !["whole"] = <<total>>]
    /\ UNCHANGED <<categories, build, total, view, effvars, anavars>>

NextAcc ==
    \/ /\ fed["whole"] = <<>>
       /\ \E i \in Parts : \E batch \in Batches(MaxEvents - Len(total)) :
             AddPart(i, batch)
    \/ AddWhole

SpecAcc == InitCM /\ [][NextAcc]_vars

(***************************************************************************)
(* Accumulation: what the claims compare.                                  *)
(***************************************************************************)
RECURSIVE Flatten(_)
Flatten(batches) ==
    IF batches = <<>> THEN <<>> ELSE Head(batches) \o Flatten(Tail(batches))

Reverse(s) == [k \in 1..Len(s) |-> s[Len(s) + 1 - k]]

\* the matrix after one add_sample call per batch on a fresh instance
RECURSIVE Replay(_, _)
Replay(cm, batches) ==
    IF batches = <<>> THEN cm
    ELSE Replay(add_sample(cm, Head(batches)).cm, Tail(batches))

RECURSIVE SumSeq(_)
SumSeq(s) == IF s = <<>> THEN 0 ELSE Head(s) + SumSeq(Tail(s))

SumCells(cm) == SumSeq([i \in 1..Len(cm) |-> SumSeq(cm[i])])

KeyIndex(key) == CHOOSE i \in 1..Len(categories) : categories[i] = key

Registered(e) == HasKey(categories, e.category) /\ HasKey(categories, e.true_label)

\* C1: the partition matrices added element-wise equal the matrix of one
\* add_sample call with the whole sequence, and the order of the calls on
\* one instance does not change its matrix.
C1_PartitionMerge ==
    /\ fed["whole"] # <<>> =>
          confusion_matrix["whole"] =
              MatAdd(confusion_matrix["a"], confusion_matrix["b"])
    /\ \A i \in Parts :
          confusion_matrix[i] = Replay(Zeros(Len(categories)), Reverse(fed[i]))

\* C1, restricted to the runs in which no add_sample call raised.
MergeWhenNoCallRaised ==
    (fed["whole"] # <<>> /\ \A i \in Instances : ~raised[i]) =>
        confusion_matrix["whole"] =
            MatAdd(confusion_matrix["a"], confusion_matrix["b"])

\* C2: the cells of an instance's matrix plus the events discarded for an
\* unregistered true category add up to the number of events it was given.
C2_EveryEventCounted ==
    \A i \in Instances :
        LET evs == Flatten(fed[i])
        IN SumCells(confusion_matrix[i])
             + Len(SelectSeq(evs, LAMBDA e : ~Registered(e))) = Len(evs)

\* C3: every event with a registered true key t and an absent or non-finite
\* predicted key (NaN, +infinity, -infinity) is counted in cell [t][-1].
C3_NonFiniteToNull ==
    \A i \in Instances : \A t \in 1..Len(categories) :
        confusion_matrix[i][t][KeyIndex(NullKey)] =
            Len(SelectSeq(Flatten(fed[i]),
                  LAMBDA e : /\ Registered(e)
                             /\ e.true_label = categories[t]
                             /\ \/ e.predicted_label.kind \in {"nan", "inf"}
                                \/ e.predicted_label = Num(NullKey)))

\* C3 for NaN alone, in the calls that return.
NaNToNullWhenNoCallRaised ==
    \A i \in Instances : \A t \in 1..Len(categories) :
        ~raised[i] =>
        confusion_matrix[i][t][KeyIndex(NullKey)] =
            Len(SelectSeq(Flatten(fed[i]),
                  LAMBDA e : /\ Registered(e)
                             /\ e.true_label = categories[t]
                             /\ \/ e.predicted_label.kind = "nan"
                                \/ e.predicted_label = Num(NullKey)))

(***************************************************************************)
(* ConfusionMatrix.draw, up to the DataFrame it hands to the heatmap.      *)
(***************************************************************************)
\* np.delete(a, index, axis): the sequence without its element at `at`
DeleteAt(s, at) ==
    [k \in 1..(Len(s) - 1) |-> IF k < at THEN s[k] ELSE s[k + 1]]

\* what np.divide leaves in a cell its `where` mask skips: the output array
\* is freshly allocated and that cell is never written
JunkValues == { <<0, 1>>, <<1, 2>>, <<5, 1>> }

\* np.divide(cm, row_sums, where=row_sums != 0)
divide_where(row, row_sum, junk) ==
    [j \in 1..Len(row) |-> IF row_sum # 0 THEN <<row[j], row_sum>> ELSE junk]

\* the deletions done as if the null key were always the last key
kept_cells_null_last(cm, nan_index, show_null_column) ==
    LET rows == DeleteAt(cm, Len(cm))
    IN IF show_null_column THEN rows
       ELSE [i \in 1..Len(rows) |-> DeleteAt(rows[i], Len(cm))]

\* rows of cm after the deletions of lines 132 and 137
kept_cells(cm, nan_index, show_null_column) ==
    LET rows == DeleteAt(cm, nan_index)
    IN IF show_null_column THEN rows
       ELSE [i \in 1..Len(rows) |-> DeleteAt(rows[i], nan_index)]

\* lines 140-142
normalize_rows(cells, junk) ==
    [i \in 1..Len(cells) |-> divide_where(cells[i], SumSeq(cells[i]), junk)]

\* lines 128, 138: the labels list, popped when the null column is hidden
kept_labels(nan_index, show_null_column) ==
    IF show_null_column THEN categories ELSE DeleteAt(categories, nan_index)

\* line 145: the labels whose position in the (popped) list is not nan_index
row_labels_of(labels, nan_index) ==
    LET keep == SelectSeq([k \in 1..Len(labels) |-> k],
                          LAMBDA k : k # nan_index)
    IN [k \in 1..Len(keep) |-> labels[keep[k]]]

draw(cm, show_null_column, junk) ==
    LET nan_index == KeyIndex(NullKey)
        cells == kept_cells(cm, nan_index, show_null_column)
        labels == kept_labels(nan_index, show_null_column)
        row_labels == row_labels_of(labels, nan_index)
    IN [drawn |-> TRUE,
        show_null_column |-> show_null_column,
        cm |-> normalize_rows(cells, junk),
        row_labels |-> row_labels,
        col_labels |-> labels,
        \* pd.DataFrame(cm, index=..., columns=...) raises ValueError when
        \* the labels do not match the shape of cm
        raised |-> \/ Len(row_labels) # Len(cells)
                   \/ \E i \in 1..Len(cells) : Len(labels) # Len(cells[i])]

\* add_sample on the instance that is drawn
AddSample(batch) ==
    /\ view = NoView
    /\ Len(total) + Len(batch) <= MaxDrawEvents
    /\ LET r == add_sample(confusion_matrix["whole"], batch)
       IN /\ confusion_matrix' = [confusion_matrix EXCEPT !["whole"] = r.cm]
          /\ raised' = [raised EXCEPT !["whole"] = @ \/ r.raised]
    /\ total' = total \o batch
    /\ UNCHANGED <<categories, build, fed, view, effvars, anavars>>

Draw(show_null_column, junk) ==
    /\ view' = draw(confusion_matrix["whole"], show_null_column, junk)
    /\ UNCHANGED <<categories, confusion_matrix, fed, total, raised, build,
                   effvars, anavars>>

NextDraw ==
    \/ /\ view = NoView
       /\ \E batch \in Batches(MaxDrawEvents - Len(total)) : AddSample(batch)
    \/ \E show \in BOOLEAN : \E junk \in JunkValues : Draw(show, junk)

SpecDraw == InitCM /\ [][NextDraw]_vars

\* the keys of the rows and of the columns the view keeps, in registry order
RowKeys == SelectSeq(categories, LAMBDA k : k # NullKey)
ColKeys == IF view.show_null_column THEN categories ELSE RowKeys
RawCell(t, p) == confusion_matrix["whole"][KeyIndex(t)][KeyIndex(p)]
RawRowSum(t) == SumSeq([c \in 1..Len(ColKeys) |-> RawCell(t, ColKeys[c])])

\* C4: in the normalized view every row whose original sum over the kept
\* columns is zero holds only zeros.
C4_ZeroRowsStayZero ==
    view.drawn =>
        \A r \in 1..Len(view.cm) :
            RawRowSum(RowKeys[r]) = 0 =>
                \A c \in 1..Len(view.cm[r]) : view.cm[r][c][1] = 0

\* C5: the normalized matrix (lines 124-142) has one row per non-null key,
\* in registry order; a row with non-zero sum holds count / (sum over the
\* displayed columns) in each cell and so sums to 1; the null column is part
\* of the denominator exactly when it is displayed.
C5_RowsNormalizedOverShownColumns ==
    view.drawn =>
        /\ Len(view.cm) = Len(RowKeys)
        /\ \A r \in 1..Len(view.cm) :
              LET t == RowKeys[r]
              IN /\ Len(view.cm[r]) = Len(ColKeys)
                 /\ RawRowSum(t) # 0 =>
                      /\ \A c \in 1..Len(ColKeys) :
                            view.cm[r][c] = <<RawCell(t, ColKeys[c]), RawRowSum(t)>>
                      /\ SumSeq([c \in 1..Len(ColKeys) |-> view.cm[r][c][1]])
                             = view.cm[r][1][2]
                      /\ (/\ RawCell(t, 0) = 1 /\ RawCell(t, 1) = 1
                          /\ RawCell(t, NullKey) = 1) =>
                            \A c \in 1..Len(ColKeys) :
                                view.cm[r][c] =
                                    <<1, IF view.show_null_column THEN 3 ELSE 2>>

\* C5's case: true=0 events predicted 0, 1 and NaN, drawn without the null
\* column, give the row 1/2, 1/2.
C5_Witness ==
    /\ view.drawn /\ ~view.show_null_column
    /\ RawCell(0, 0) = 1 /\ RawCell(0, 1) = 1 /\ RawCell(0, NullKey) = 1
    /\ view.cm[1] = << <<1, 2>>, <<1, 2>> >>

\* C11: for every registry, also one holding key -1 before its last place,
\* the view has one row label per matrix row and one column label per matrix
\* column, in registry order; only the null key is missing from the row
\* labels (and from the column labels when the null column is hidden), and
\* building the labelled frame does not raise.
C11_LabelsMatchMatrix ==
    view.drawn =>
        /\ ~view.raised
        /\ view.row_labels = RowKeys
        /\ view.col_labels = ColKeys
        /\ Len(view.row_labels) = Len(view.cm)
        /\ \A r \in 1..Len(view.cm) : Len(view.col_labels) = Len(view.cm[r])

\* C11 when the null key is the last key or the null column is shown.
LabelsMatchWhenNullLastOrShown ==
    (view.drawn /\ (view.show_null_column
                     \/ categories[Len(categories)] = NullKey)) =>
        C11_LabelsMatchMatrix

(***************************************************************************)
(* plot_eff_by_var                                                         *)
(***************************************************************************)
\* config['variables'][var]['range'] and the number of efficiency bins
\* (config nbins, or the nbins_eff argument)
EffRanges == { <<0, 10, 20>> }
EffNBins == {2, 4}
EffValues == {0, 5, 10, 15, 20, 25}

\* a row of the signal dataframe: its index, the variable, the selection flag
SigRows(n) ==
    UNION { [1..k -> [v : EffValues, reco_all_cuts_satisfied : BOOLEAN]]
            : k \in 0..n }

Lo == eff_in.range[1]
Hi == eff_in.range[Len(eff_in.range)]

\* np.linspace(lo, hi, n + 1)[k], times n (the edges are compared exactly)
EffEdgeN(k) == Lo * eff_in.nbins + k * (Hi - Lo)

\* line 230: the rows strictly inside the range, with their index kept
filter_range(rows) ==
    SelectSeq([k \in 1..Len(rows) |->
                  [index |-> k, v |-> rows[k].v,
                   reco_all_cuts_satisfied |-> rows[k].reco_all_cuts_satisfied]],
              LAMBDA r : r.v > Lo /\ r.v < Hi)

\* a mis-reading of pd.cut: intervals closed on the left, [lower, upper)
pd_cut_left_closed(x, bins) ==
    LET pos == Cardinality({k \in 1..Len(bins) : bins[k] <= x})
    IN IF pos = 0 \/ pos = Len(bins) THEN 0 ELSE pos

\* pd.cut(x, bins) with right=True, include_lowest=False: the position
\* bins.searchsorted(x, side='left') finds, i.e. the number of edges below
\* x; position 0 and position len(bins) are outside every interval (NaN,
\* written 0)
pd_cut(x, bins) ==
    LET pos == Cardinality({k \in 1..Len(bins) : bins[k] < x})
    IN IF pos = 0 \/ pos = Len(bins) THEN 0 ELSE pos

\* line 234: the analysis bins, edges config[...]['range']
cut_ana(rows) ==
    [k \in 1..Len(rows) |-> pd_cut(rows[k].v, eff_in.range)]

\* lines 240 / 243: the efficiency bins, edges np.linspace(lo, hi, n + 1);
\* value and edges are both multiplied by n
cut_eff(rows) ==
    [k \in 1..Len(rows) |->
        pd_cut(rows[k].v * eff_in.nbins,
               [e \in 1..(eff_in.nbins + 1) |-> EffEdgeN(e - 1)])]

\* groupby('var_q_eff'): one group per category of the binning, in bin
\* order; pandas keeps the empty bins (observed=False) or leaves them out
\* (observed=True), depending on its version.  Rows with no bin are in no
\* group.
groupby_eff(rows, bins) ==
    LET all == [b \in 1..eff_in.nbins |->
                  [bin |-> b,
                   rows |-> SelectSeq([k \in 1..Len(rows) |-> [row |-> rows[k], q |-> bins[k]]],
                                      LAMBDA r : r.q = b)]]
    IN IF eff_in.observed THEN SelectSeq(all, LAMBDA g : g.rows # <<>>)
       ELSE all

NPass(g) == Cardinality({k \in 1..Len(g.rows) : g.rows[k].row.reco_all_cuts_satisfied})

InitEff ==
    /\ CMIdle
    /\ AnaIdle
    /\ \E range \in EffRanges, n \in EffNBins, observed \in BOOLEAN,
          rows \in SigRows(MaxSigRows) :
          eff_in = [called |-> TRUE, range |-> range, nbins |-> n,
                    observed |-> observed, rows |-> rows]
    /\ eff_pc = "filter"
    /\ sig_df = <<>>
    /\ var_q_ana = <<>>
    /\ var_q_eff = <<>>
    /\ groups = <<>>
    /\ eff_i = 0
    /\ vals = <<>>
    /\ hpass = <<>>
    /\ htotal = <<>>

\* line 230
EffFilter ==
    /\ eff_pc = "filter"
    /\ sig_df' = filter_range(eff_in.rows)
    /\ eff_pc' = "cut"
    /\ UNCHANGED <<cmvars, anavars, eff_in, var_q_ana, var_q_eff, groups, eff_i, vals,
                   hpass, htotal>>

\* lines 233-243
EffCut ==
    /\ eff_pc = "cut"
    /\ var_q_ana' = cut_ana(sig_df)
    /\ var_q_eff' = cut_eff(sig_df)
    /\ eff_pc' = "edges"
    /\ UNCHANGED <<cmvars, anavars, eff_in, sig_df, groups, eff_i, vals, hpass, htotal>>

\* lines 248-265: max() of the right edges raises ValueError when no row is
\* left; otherwise the two histograms are booked and the loop starts
EffEdges ==
    /\ eff_pc = "edges"
    /\ IF sig_df = <<>>
       THEN /\ eff_pc' = "ValueError"
            /\ UNCHANGED <<groups, hpass, htotal>>
       ELSE /\ eff_pc' = "loop"
            /\ groups' = groupby_eff(sig_df, var_q_eff)
            /\ hpass' = [b \in 1..eff_in.nbins |-> 0]
            /\ htotal' = [b \in 1..eff_in.nbins |-> 0]
    /\ UNCHANGED <<cmvars, anavars, eff_in, sig_df, var_q_ana, var_q_eff, eff_i, vals>>

\* lines 267-274, one iteration: vals gets len(group) / len(passing rows),
\* a Python division of two ints, and bin i+1 of the histograms is filled
EffBin ==
    /\ eff_pc = "loop"
    /\ eff_i < Len(groups)
    /\ LET g == groups[eff_i + 1]
       IN IF NPass(g) = 0
          THEN /\ eff_pc' = "ZeroDivisionError"
               /\ UNCHANGED <<eff_i, vals, hpass, htotal>>
          ELSE /\ vals' = Append(vals, <<Len(g.rows), NPass(g)>>)
               /\ hpass' = [hpass EXCEPT ![eff_i + 1] = NPass(g)]
               /\ htotal' = [htotal EXCEPT ![eff_i + 1] = Len(g.rows)]
               /\ eff_i' = eff_i + 1
               /\ eff_pc' = "loop"
    /\ UNCHANGED <<cmvars, anavars, eff_in, sig_df, var_q_ana, var_q_eff, groups>>

\* line 276 on: the loop is over, the graph is divided and drawn
EffPlot ==
    /\ eff_pc = "loop"
    /\ eff_i = Len(groups)
    /\ eff_pc' = "done"
    /\ UNCHANGED <<cmvars, anavars, eff_in, sig_df, var_q_ana, var_q_eff, groups, eff_i,
                   vals, hpass, htotal>>

NextEff == EffFilter \/ EffCut \/ EffEdges \/ EffBin \/ EffPlot

SpecEff == InitEff /\ [][NextEff]_vars

\* C6: the ratio reported for a bin is pass_count / total_count, within
\* [0, 1], when the bin has events; a bin without events is reported as
\* undefined; computing the ratio never raises.
C6_RatioIsPassOverTotal ==
    /\ eff_pc # "ZeroDivisionError"
    /\ \A k \in 1..Len(vals) :
          LET total_count == Len(groups[k].rows)
              pass_count == NPass(groups[k])
          IN /\ total_count > 0 =>
                  /\ vals[k][2] # 0
                  /\ vals[k][1] * total_count = pass_count * vals[k][2]
                  /\ 0 <= vals[k][1] /\ vals[k][1] <= vals[k][2]
             /\ total_count = 0 => vals[k] = <<0, 0>>

Binned == eff_pc \notin {"idle", "filter", "cut"}

\* the efficiency bin the kept row with index j has, 0 when the row was
\* filtered out or is in no bin
AssignedBin(j) ==
    IF \E k \in 1..Len(sig_df) : sig_df[k].index = j
    THEN var_q_eff[CHOOSE k \in 1..Len(sig_df) : sig_df[k].index = j]
    ELSE 0

F(n) == <<n, 1>>
FMul(a, b) == <<a[1] * b[1], a[2] * b[2]>>
FAdd(a, b) == <<a[1] * b[2] + b[1] * a[2], a[2] * b[2]>>

\* a / b of two Python ints
py_divide(a, b) ==
    IF b = 0 THEN [kind |-> "ZeroDivisionError"]
    ELSE [kind |-> "num", n |-> a, d |-> b]

\* a / b with a numpy float64 operand: 0/0 is nan and x/0 is inf, with a
\* RuntimeWarning and no exception.  POT and Livetime are numpy scalars
\* (to_numpy()[0][0]), and so is everything computed from them.
np_divide(a, b) ==
    IF b[1] = 0
    THEN IF a[1] = 0 THEN [kind |-> "nan"] ELSE [kind |-> "inf"]
    ELSE [kind |-> "num", n |-> a[1] * b[2], d |-> a[2] * b[1]]

\* the dict `cuts` of main, in insertion order; a predicate P stands for the
\* condition 'reco_P_satisfied == 1'
cuts ==
    << [key |-> "Flash Cut", value |-> <<"flash_icarus">>],
       [key |-> "Fiducial Cut", value |-> <<"flash_icarus", "fiducial">>],
       [key |-> "Base Topology Cut",
        value |-> <<"flash_icarus", "fiducial", "base_topology">>],
       [key |-> "Leading Shower Energy Cut",
        value |-> <<"flash_icarus", "fiducial", "base_topology",
                    "leading_shower_energy">>],
       [key |-> "pi0 Mass Cut",
        value |-> <<"flash_icarus", "fiducial", "base_topology",
                    "leading_shower_energy", "valid_pi0_mass">>] >>

AllPredicates ==
    {"flash_icarus", "fiducial", "base_topology", "leading_shower_energy",
     "valid_pi0_mass"}

Row(sat, all_cuts, cat) ==
    [sat |-> sat, reco_all_cuts_satisfied |-> all_cuts, true_category |-> cat]

\* rows of the signal tree, of the neutrino and cosmic MC trees and of the
\* off-beam tree
SignalPool ==
    { Row(AllPredicates, TRUE, 0), Row({"flash_icarus", "fiducial"}, FALSE, 0),
      Row({"fiducial"}, FALSE, 0) }
NuPool ==
    { Row(AllPredicates, TRUE, 0), Row({"flash_icarus"}, FALSE, 0),
      Row(AllPredicates, TRUE, 1) }
CosPool == { Row({"flash_icarus", "fiducial"}, FALSE, 2) }
OffbeamPool == { Row(AllPredicates, TRUE, 2), Row({}, FALSE, 2) }
Exposures == {1, 2}

Frames(pool, n) == UNION { [1..k -> pool] : k \in 0..n }

\* all_samples: the list of sample dicts, by sample name.  The purity
\* trees hold the same rows as the selected trees here.
Samples(sig, nu, cos, off, pot_onbeam, pot_mc, livetime_onbeam, livetime_offbeam) ==
    [loaded |-> TRUE,
     signal |-> [df |-> sig],
     mc_nu |-> [df |-> nu, pot |-> pot_mc],
     mc_cos |-> [df |-> cos],
     offbeam |-> [df |-> off, livetime |-> livetime_offbeam],
     onbeam |-> [pot |-> pot_onbeam, livetime |-> livetime_onbeam],
     mc_nu_pur |-> [df |-> nu],
     mc_cos_pur |-> [df |-> cos],
     offbeam_pur |-> [df |-> off]]

Line(fn, key, value) == [fn |-> fn, key |-> key, value |-> value]

\* lines 139-142: the conditions of a cut joined by ' & '
cond_string(value) ==
    [k \in 1..(2 * Len(value) - 1) |->
        IF k % 2 = 1 THEN value[(k + 1) \div 2] ELSE "&"]

\* a query that applies only the last condition of the string
query_last_condition(df, cond) ==
    SelectSeq(df, LAMBDA r : cond[Len(cond)] \in r.sat)

\* DataFrame.query(cond_string): the rows on which every operand of & holds
query(df, cond) ==
    SelectSeq(df, LAMBDA r : \A k \in 1..Len(cond) :
                                 cond[k] = "&" \/ cond[k] \in r.sat)

IsForeground(r) == r.true_category = 0

\* lines 117-125
calculate_efficiency(s) ==
    py_divide(Len(SelectSeq(s.signal.df, LAMBDA r : r.reco_all_cuts_satisfied)),
              Len(s.signal.df))

\* lines 144-145
efficiency_of_cut(s, value) ==
    py_divide(Len(query(s.signal.df, cond_string(value))), Len(s.signal.df))

\* the purity with the matched count left unscaled
calculate_purity_unscaled_matched(s) ==
    LET sel_mc_df == s.mc_nu.df \o s.mc_cos.df
        scale_mc == <<s.onbeam.pot, s.mc_nu.pot>>
        scale_bg == <<s.onbeam.livetime, s.offbeam.livetime>>
    IN np_divide(F(Len(SelectSeq(sel_mc_df, IsForeground))),
                 FAdd(FMul(scale_mc, F(Len(sel_mc_df))),
                      FMul(scale_bg, F(Len(s.offbeam.df)))))

\* lines 155-172
calculate_purity(s) ==
    LET sel_mc_df == s.mc_nu.df \o s.mc_cos.df
        scale_mc == <<s.onbeam.pot, s.mc_nu.pot>>
        scale_bg == <<s.onbeam.livetime, s.offbeam.livetime>>
        matched_selected_events ==
            FMul(scale_mc, F(Len(SelectSeq(sel_mc_df, IsForeground))))
        total_selected_events ==
            FAdd(FMul(scale_mc, F(Len(sel_mc_df))),
                 FMul(scale_bg, F(Len(s.offbeam.df))))
    IN np_divide(matched_selected_events, total_selected_events)

\* lines 194 and 208: matched MC rows over MC rows plus scaled off-beam rows
purity_of(s, mc, off) ==
    LET scale_bg == <<s.onbeam.livetime, s.offbeam.livetime>>
    IN np_divide(F(Len(SelectSeq(mc, IsForeground))),
                 FAdd(F(Len(mc)), FMul(scale_bg, F(Len(off)))))

\* line 194
no_cut_purity(s) ==
    purity_of(s, s.mc_nu_pur.df \o s.mc_cos_pur.df, s.offbeam_pur.df)

\* lines 199-208
purity_of_cut(s, value) ==
    purity_of(s, query(s.mc_nu_pur.df \o s.mc_cos_pur.df, cond_string(value)),
                 query(s.offbeam_pur.df, cond_string(value)))

InitAna ==
    /\ CMIdle
    /\ EffIdle
    /\ AnaIdle

\* main line 58: calculate_efficiency(all_samples)
CalculateEfficiency(sig) ==
    /\ ana_pc = "main"
    /\ LET s == Samples(sig, <<>>, <<>>, <<>>, 1, 1, 1, 1)
           eff == calculate_efficiency(s)
       IN /\ all_samples' = s
          /\ IF eff.kind = "ZeroDivisionError"
             THEN /\ ana_pc' = "ZeroDivisionError"
                  /\ UNCHANGED <<out, result>>
             ELSE /\ ana_pc' = "calculate_efficiency_by_cut"
                  /\ out' = Append(out, Line("calculate_efficiency", "", eff))
                  /\ result' = eff
    /\ UNCHANGED <<cmvars, effvars, cut_i>>

\* main line 76, line 137: the baseline line is a constant string
EfficiencyBaseline ==
    /\ ana_pc = "calculate_efficiency_by_cut"
    /\ out' = Append(out, Line("calculate_efficiency_by_cut", "No Cut",
                               [kind |-> "num", n |-> 1, d |-> 1]))
    /\ cut_i' = 0
    /\ ana_pc' = "efficiency_cuts"
    /\ UNCHANGED <<cmvars, effvars, all_samples, result>>

\* lines 138-147, one iteration of the loop over cuts.items()
EfficiencyCut ==
    /\ ana_pc = "efficiency_cuts"
    /\ cut_i < Len(cuts)
    /\ LET eff == efficiency_of_cut(all_samples, cuts[cut_i + 1].value)
       IN IF eff.kind = "ZeroDivisionError"
          THEN /\ ana_pc' = "ZeroDivisionError"
               /\ UNCHANGED <<out, cut_i>>
          ELSE /\ out' = Append(out, Line("calculate_efficiency_by_cut",
                                          cuts[cut_i + 1].key, eff))
               /\ cut_i' = cut_i + 1
               /\ ana_pc' = "efficiency_cuts"
    /\ UNCHANGED <<cmvars, effvars, all_samples, result>>

EfficiencyByCutReturn ==
    /\ ana_pc = "efficiency_cuts"
    /\ cut_i = Len(cuts)
    /\ ana_pc' = "efficiency_by_cut_done"
    /\ UNCHANGED <<cmvars, effvars, all_samples, cut_i, out, result>>

\* main line 79: calculate_purity(all_samples)
CalculatePurity(nu, cos, off, pot_onbeam, pot_mc, livetime_onbeam, livetime_offbeam) ==
    /\ ana_pc = "main"
    /\ LET s == Samples(<<>>, nu, cos, off, pot_onbeam, pot_mc,
                        livetime_onbeam, livetime_offbeam)
           pur == calculate_purity(s)
       IN /\ all_samples' = s
          /\ out' = Append(out, Line("calculate_purity", "", pur))
          /\ result' = pur
    /\ ana_pc' = "calculate_purity_by_cut"
    /\ UNCHANGED <<cmvars, effvars, cut_i>>

\* main line 82 (the call main keeps commented out), lines 194-195
PurityBaseline ==
    /\ ana_pc = "calculate_purity_by_cut"
    /\ out' = Append(out, Line("calculate_purity_by_cut", "No Cut",
                               no_cut_purity(all_samples)))
    /\ cut_i' = 0
    /\ ana_pc' = "purity_cuts"
    /\ UNCHANGED <<cmvars, effvars, all_samples, result>>

\* lines 198-209, one iteration of the loop over cuts.items()
PurityCut ==
    /\ ana_pc = "purity_cuts"
    /\ cut_i < Len(cuts)
    /\ out' = Append(out, Line("calculate_purity_by_cut", cuts[cut_i + 1].key,
                               purity_of_cut(all_samples, cuts[cut_i + 1].value)))
    /\ cut_i' = cut_i + 1
    /\ UNCHANGED <<cmvars, effvars, all_samples, ana_pc, result>>

PurityByCutReturn ==
    /\ ana_pc = "purity_cuts"
    /\ cut_i = Len(cuts)
    /\ ana_pc' = "purity_by_cut_done"
    /\ UNCHANGED <<cmvars, effvars, all_samples, cut_i, out, result>>

NextAna ==
    \/ /\ ana_pc = "main"
       /\ \E sig \in Frames(SignalPool, MaxRows) : CalculateEfficiency(sig)
    \/ EfficiencyBaseline
    \/ EfficiencyCut
    \/ EfficiencyByCutReturn
    \/ /\ ana_pc = "main"
       /\ \E nu \in Frames(NuPool, MaxRows), cos \in Frames(CosPool, MaxRows),
             off \in Frames(OffbeamPool, MaxRows),
             pot_onbeam \in Exposures, pot_mc \in Exposures,
             livetime_onbeam \in Exposures, livetime_offbeam \in Exposures :
             CalculatePurity(nu, cos, off, pot_onbeam, pot_mc,
                             livetime_onbeam, livetime_offbeam)
    \/ PurityBaseline
    \/ PurityCut
    \/ PurityByCutReturn

SpecAna == InitAna /\ [][NextAna]_vars

(***************************************************************************)
(* Efficiency and purity: what the claims state.                           *)
(***************************************************************************)
PurityReturned ==
    ana_pc \in {"calculate_purity_by_cut", "purity_cuts", "purity_by_cut_done"}

McRows == all_samples.mc_nu.df \o all_samples.mc_cos.df
OffbeamRows == all_samples.offbeam.df

NForeground(rows) == Cardinality({k \in 1..Len(rows) : rows[k].true_category = 0})

\* scale_mc * matched and scale_mc * mc + scale_bg * offbeam, both times
\* pot_mc * livetime_offbeam, which makes them integers
ScaledMatched(mc) ==
    all_samples.onbeam.pot * NForeground(mc) * all_samples.offbeam.livetime
ScaledTotal(mc, off) ==
    all_samples.onbeam.pot * Len(mc) * all_samples.offbeam.livetime
      + all_samples.onbeam.livetime * Len(off) * all_samples.mc_nu.pot

\* value is the fraction num / den, or undefined when den = 0
IsRatio(value, num, den) ==
    IF den = 0 THEN value.kind = "nan"
    ELSE /\ value.kind = "num"
         /\ value.d # 0
         /\ value.n * den = num * value.d

\* C8: calculate_purity returns matched / total with both MC counts scaled
\* by scale_mc and the off-beam count by scale_bg; the value lies in [0, 1]
\* when total > 0 and is the undefined value (NaN), not 0 and not an
\* exception, when total = 0.
C8_PurityIsMatchedOverTotal ==
    PurityReturned =>
        /\ IsRatio(result, ScaledMatched(McRows), ScaledTotal(McRows, OffbeamRows))
        /\ ScaledTotal(McRows, OffbeamRows) > 0 =>
              /\ result.d > 0
              /\ 0 <= result.n /\ result.n <= result.d

\* C8's case: no selected event at all, total = 0
C8_Witness ==
    /\ PurityReturned
    /\ McRows = <<>> /\ OffbeamRows = <<>>
    /\ result = [kind |-> "nan"]

LinesOf(fn) == SelectSeq(out, LAMBDA l : l.fn = fn)

\* the rows satisfying every predicate listed for cut k
Satisfying(rows, k) ==
    SelectSeq(rows, LAMBDA r :
        {cuts[k].value[c] : c \in 1..Len(cuts[k].value)} \subseteq r.sat)

\* line j of a by-cut function: the baseline, then the cuts as declared
ExpectedKey(j) == IF j = 1 THEN "No Cut" ELSE cuts[j - 1].key

EfficiencyLineOk(l, j) ==
    /\ l.key = ExpectedKey(j)
    /\ IF j = 1 THEN IsRatio(l.value, 1, 1)
       ELSE IsRatio(l.value, Len(Satisfying(all_samples.signal.df, j - 1)),
                    Len(all_samples.signal.df))

\* the purity of lines 194 / 208 on the rows of line j
UnscaledPurityOk(value, mc, off) ==
    IsRatio(value,
            NForeground(mc) * all_samples.offbeam.livetime,
            Len(mc) * all_samples.offbeam.livetime
              + all_samples.onbeam.livetime * Len(off))

PurityLineOk(l, j) ==
    /\ l.key = ExpectedKey(j)
    /\ IF j = 1 THEN UnscaledPurityOk(l.value, McRows, OffbeamRows)
       ELSE UnscaledPurityOk(l.value, Satisfying(McRows, j - 1),
                             Satisfying(OffbeamRows, j - 1))

\* C9: each by-cut function prints the baseline first and then one line per
\* cut, in the order the cuts are declared, each value computed on the rows
\* satisfying all the predicates of its cut; when the function returns,
\* every cut has its line.
C9_BaselineThenCutsInOrder ==
    LET e == LinesOf("calculate_efficiency_by_cut")
        q == LinesOf("calculate_purity_by_cut")
    IN /\ Len(e) <= 1 + Len(cuts)
       /\ \A j \in 1..Len(e) : EfficiencyLineOk(e[j], j)
       /\ ana_pc = "efficiency_by_cut_done" => Len(e) = 1 + Len(cuts)
       /\ Len(q) <= 1 + Len(cuts)
       /\ \A j \in 1..Len(q) : PurityLineOk(q[j], j)
       /\ ana_pc = "purity_by_cut_done" => Len(q) = 1 + Len(cuts)

\* C9's case: every line printed, with a row that passes the fiducial
\* condition and fails the flash condition listed before it
C9_Witness ==
    /\ ana_pc = "efficiency_by_cut_done"
    /\ Len(LinesOf("calculate_efficiency_by_cut")) = 1 + Len(cuts)
    /\ \E k \in 1..Len(all_samples.signal.df) :
          all_samples.signal.df[k].sat = {"fiducial"}
    /\ \E k \in 1..Len(all_samples.signal.df) :
          all_samples.signal.df[k].sat = AllPredicates

\* C10: every purity calculate_purity_by_cut prints is calculate_purity's
\* formula (MC counts scaled by scale_mc, off-beam count by scale_bg) on the
\* rows of that line, and the baseline equals what calculate_purity returned
\* for the same samples.
C10_ByCutPurityIsScaled ==
    LET q == LinesOf("calculate_purity_by_cut")
    IN \A j \in 1..Len(q) :
          IF j = 1
          THEN /\ IsRatio(q[j].value, ScaledMatched(McRows),
                          ScaledTotal(McRows, OffbeamRows))
               /\ \/ q[j].value.kind = "nan" /\ result.kind = "nan"
                  \/ /\ q[j].value.kind = "num" /\ result.kind = "num"
                     /\ q[j].value.n * result.d = result.n * q[j].value.d
          ELSE IsRatio(q[j].value, ScaledMatched(Satisfying(McRows, j - 1)),
                       ScaledTotal(Satisfying(McRows, j - 1),
                                   Satisfying(OffbeamRows, j - 1)))

\* C10 with scale_mc = 1: the two functions agree
ByCutPurityIsScaledWhenScaleIsOne ==
    all_samples.loaded =>
        (all_samples.onbeam.pot = all_samples.mc_nu.pot => C10_ByCutPurityIsScaled)

====
